---- MODULE Spec2Model ----
(***************************************************************************)
(* CodebaseScanner: the rule evaluator (should_process_item), the         *)
(* recursive directory walker (process_directory) and the directory tree   *)
(* renderer (generate_directory_tree_text) of scan_engine.py, with the     *)
(* scan entry point of the GUI applications, which writes the document,    *)
(* and the decision function of the monolithic CodebaseScanner.py.         *)
(*                                                                         *)
(* Paths are strings, modelled as sequences of one-character strings, so   *)
(* that str.startswith and os.path.join are computed as the code computes  *)
(* them.  The file system is a finite tree below the scan directory; a     *)
(* directory may fail to list and a file may fail to read.                 *)
(***************************************************************************)
EXTENDS Integers, Sequences, FiniteSets, TLC

(***************************************************************************)
(* Bounds of the model.                                                    *)
(***************************************************************************)
MaxFileRules == 1
MaxFolderRules == 1
MaxFaults == 1
MaxAncestors == 1
MaxTreeBlacklist == 1

(***************************************************************************)
(* Program constants (app_config.py).                                      *)
(***************************************************************************)
FILTER_BLACKLIST == "blacklist"
FILTER_WHITELIST == "whitelist"

(***************************************************************************)
(* Strings and paths.                                                      *)
(***************************************************************************)
Sep == "/"

\* Code points of the characters used, for Python's string ordering.
Ord(c) == CASE c = "/" -> 47
            [] c = "a" -> 97
            [] c = "b" -> 98
            [] c = "p" -> 112

\* str.startswith
StartsWith(s, prefix) ==
    /\ Len(prefix) <= Len(s)
    /\ SubSeq(s, 1, Len(prefix)) = prefix

\* Python's < on str: lexicographic by code point, a proper prefix is smaller.
RECURSIVE StrLess(_, _)
StrLess(s, t) ==
    IF t = <<>> THEN FALSE
    ELSE IF s = <<>> THEN TRUE
    ELSE IF Head(s) # Head(t) THEN Ord(Head(s)) < Ord(Head(t))
    ELSE StrLess(Tail(s), Tail(t))

\* os.path.join(directory, name) for a relative name
Join(directory, name) ==
    IF directory # <<>> /\ directory[Len(directory)] = Sep
    THEN directory \o name
    ELSE directory \o <<Sep>> \o name

\* os.path.normpath on the paths of the model (no "." or ".." components):
\* repeated separators collapse and a trailing separator is dropped.
RECURSIVE Collapse(_)
Collapse(s) ==
    IF Len(s) <= 1 THEN s
    ELSE IF s[1] = Sep /\ s[2] = Sep THEN Collapse(Tail(s))
    ELSE <<s[1]>> \o Collapse(Tail(s))

NormPath(s) ==
    LET c == Collapse(s)
    IN  IF Len(c) > 1 /\ c[Len(c)] = Sep THEN SubSeq(c, 1, Len(c) - 1) ELSE c

\* os.path.basename of a normalized path: what follows the last separator
BaseName(s) ==
    LET seps == {i \in 1..Len(s) : s[i] = Sep}
    IN  IF seps = {} THEN s
        ELSE SubSeq(s, (CHOOSE i \in seps : \A j \in seps : j <= i) + 1, Len(s))

(***************************************************************************)
(* The universe of paths: the scan directory /p and the candidate entries  *)
(* below it.  /p/a and /p/ab are siblings whose names share a prefix;      *)
(* /p/a/b and /p/a/b/a give three levels below the scan directory.         *)
(***************************************************************************)
ScanDir == <<"/", "p">>
NameA  == <<"a">>
NameAB == <<"a", "b">>
NameB  == <<"b">>

PathA   == Join(ScanDir, NameA)
PathAB  == Join(ScanDir, NameAB)
PathAsB == Join(PathA, NameB)
PathAsBsA == Join(PathAsB, NameA)

Names == {NameA, NameAB, NameB}
Candidates == {PathA, PathAB, PathAsB, PathAsBsA}
AllPaths == {ScanDir} \cup Candidates

\* The directory that holds a candidate entry, by the structure of the tree
\* (not by string prefix).
Parents ==
    [p \in Candidates |-> CHOOSE d \in AllPaths : \E n \in Names : Join(d, n) = p]

ParentOf(p) == Parents[p]

RECURSIVE Depth(_)
Depth(p) == IF p = ScanDir THEN 0 ELSE 1 + Depth(ParentOf(p))

\* a is a proper ancestor of p in the tree
RECURSIVE IsAncestor(_, _)
IsAncestor(a, p) ==
    /\ p # ScanDir
    /\ \/ ParentOf(p) = a
       \/ IsAncestor(a, ParentOf(p))

\* p is nested under folder f: strictly below it, at any depth
NestedUnder(p, f) == IsAncestor(f, p)

(***************************************************************************)
(* State.                                                                  *)
(***************************************************************************)
VARIABLES
    tree,             \* the file system: path -> "none" | "file" | "dir"
    unlistable,       \* directories on which os.listdir raises
    unreadable,       \* files on which open/read raises
    rules_files,      \* the file rules of the scan (normalized paths)
    rules_folders,    \* the folder rules of the scan (normalized paths)
    filter_mode,      \* FILTER_BLACKLIST or FILTER_WHITELIST
    phase,            \* "idle" | "document" | "scan" | "done" | "rule" | "tree" | "tree_done"
    run,              \* 1 for the first scan of the tree, 2 for the second
    stack,            \* the activation records of process_directory
    output_file,      \* the writes made to the output file, in order
    previous_output,  \* what the previous scan wrote
    previous_calls,   \* the invocations of the previous scan
    calls,            \* every invocation of process_directory, in order
    result,           \* the value returned by the outermost process_directory
    probe,            \* one call of should_process_item: arguments and result
    tree_blacklist,   \* the directory tree blacklist of the scan
    tree_text,        \* the lines generate_directory_tree_text returned
    scan_params       \* generate_tree, rules_path_display and rules_dirty

vars == <<tree, unlistable, unreadable, rules_files, rules_folders, filter_mode,
          phase, run, stack, output_file, previous_output, previous_calls, calls,
          result, probe, tree_blacklist, tree_text, scan_params>>

renderer == <<tree_blacklist, tree_text>>

config == <<tree, unlistable, unreadable, rules_files, rules_folders, filter_mode>>

NoProbe == [called |-> FALSE]

\* the parameters of a scan that writes no tree section and names no rules
\* file
NoParams == [generate_tree |-> FALSE, rules_path_display |-> <<>>, rules_dirty |-> FALSE]

(***************************************************************************)
(* The file system primitives.                                             *)
(***************************************************************************)
\* os.path.isfile
isfile(path) == path \in AllPaths /\ tree[path] = "file"

\* the names os.listdir returns for a directory, as a set
Entries(directory) ==
    {n \in Names : Join(directory, n) \in AllPaths /\ tree[Join(directory, n)] # "none"}

\* the orders in which os.listdir may return them
Listings(directory) ==
    LET S == Entries(directory)
    IN  {s \in [1..Cardinality(S) -> S] : \A i, j \in DOMAIN s : s[i] = s[j] => i = j}

(***************************************************************************)
(* RuleEvaluator: should_process_item.                                     *)
(***************************************************************************)
\* FILTER_BLACKLIST branch that forgets the separator in the prefix test
BlacklistAllowsNoSep(path, is_file, files, folders) ==
    IF is_file
    THEN /\ path \notin files
         /\ ~ \E folder_rule \in folders : StartsWith(path, folder_rule)
    ELSE /\ path \notin folders
         /\ ~ \E folder_rule \in folders : StartsWith(path, folder_rule)

BlacklistAllows(path, is_file, files, folders) ==
    IF is_file
    THEN /\ path \notin files
         /\ ~ \E folder_rule \in folders : StartsWith(path, folder_rule \o <<Sep>>)
    ELSE /\ path \notin folders
         /\ ~ \E folder_rule \in folders : StartsWith(path, folder_rule \o <<Sep>>)

\* FILTER_WHITELIST branch that never consults the whitelisted ancestors
WhitelistAllowsRulesOnly(path, is_file, files, folders, whitelisted_parent_folders) ==
    IF is_file THEN path \in files ELSE path \in folders

WhitelistAllows(path, is_file, files, folders, whitelisted_parent_folders) ==
    IF \E i \in 1..Len(whitelisted_parent_folders) :
           \/ StartsWith(path, whitelisted_parent_folders[i] \o <<Sep>>)
           \/ path = whitelisted_parent_folders[i]
    THEN TRUE
    ELSE IF is_file THEN path \in files ELSE path \in folders

should_process_item(item_path, is_file, files, folders, mode, whitelisted_parent_folders) ==
    LET normalized_item_path == NormPath(item_path)
    IN  IF mode = FILTER_BLACKLIST
        THEN BlacklistAllows(normalized_item_path, is_file, files, folders)
        ELSE IF mode = FILTER_WHITELIST
        THEN WhitelistAllows(normalized_item_path, is_file, files, folders,
                             whitelisted_parent_folders)
        ELSE TRUE

(***************************************************************************)
(* The decision function of the monolithic variant, CodebaseScanner.py.    *)
(***************************************************************************)
\* CodebaseScanner.py lines 177-190
CodebaseScanner_BlacklistAllows(path, is_file, files, folders) ==
    IF is_file
    THEN /\ path \notin files
         /\ ~ \E folder_rule \in folders :
                  \/ StartsWith(path, folder_rule \o <<Sep>>)
                  \/ path = folder_rule
    ELSE /\ path \notin folders
         /\ ~ \E folder_rule \in folders : StartsWith(path, folder_rule \o <<Sep>>)

\* CodebaseScanner.py lines 192-200
CodebaseScanner_WhitelistAllows(path, is_file, files, folders, whitelisted_parent_folders) ==
    IF \E i \in 1..Len(whitelisted_parent_folders) :
           \/ StartsWith(path, whitelisted_parent_folders[i] \o <<Sep>>)
           \/ path = whitelisted_parent_folders[i]
    THEN TRUE
    ELSE IF is_file THEN path \in files ELSE path \in folders

\* CodebaseScanner.py lines 174-203
CodebaseScanner_should_process_item(item_path, is_file, files, folders, mode, whitelisted_parent_folders) ==
    LET normalized_item_path == NormPath(item_path)
    IN  IF mode = FILTER_BLACKLIST
        THEN CodebaseScanner_BlacklistAllows(normalized_item_path, is_file, files, folders)
        ELSE IF mode = FILTER_WHITELIST
        THEN CodebaseScanner_WhitelistAllows(normalized_item_path, is_file, files,
                                             folders, whitelisted_parent_folders)
        ELSE TRUE

(***************************************************************************)
(* TreeWalker: process_directory.                                          *)
(*                                                                         *)
(* An activation record holds the locals of one invocation.  pc is "entry" *)
(* before os.listdir and "loop" while the sub-directories are walked.      *)
(***************************************************************************)
Event(kind, path, level) == [kind |-> kind, path |-> path, level |-> level]

\* the ancestors list that is never extended
ExtendAncestorsNever(ancestors, directory, mode, folders) == ancestors

\* the ancestors list extended by every directory of a Whitelist scan,
\* whitelisted folder or not
ExtendAncestorsAlways(ancestors, directory, mode, folders) ==
    IF /\ mode = FILTER_WHITELIST
       /\ ~ \E i \in 1..Len(ancestors) : ancestors[i] = directory
    THEN Append(ancestors, directory)
    ELSE ancestors

\* the ancestors list extended by a whitelisted folder without the test of
\* lines 88 and 154, whether or not the list holds it already
ExtendAncestorsNoTest(ancestors, directory, mode, folders) ==
    IF mode = FILTER_WHITELIST /\ directory \in folders
    THEN Append(ancestors, directory)
    ELSE ancestors

\* lines 86-89, and 151-155 for a child: the ancestors list extended by the
\* directory when it is a whitelisted folder not yet in the list
ExtendAncestors(ancestors, directory, mode, folders) ==
    IF /\ mode = FILTER_WHITELIST
       /\ directory \in folders
       /\ ~ \E i \in 1..Len(ancestors) : ancestors[i] = directory
    THEN Append(ancestors, directory)
    ELSE ancestors

\* lines 80-92: the activation record of a fresh invocation
NewFrame(directory, level, whitelisted_ancestor_folders) ==
    LET normalized_directory == NormPath(directory)
    IN  [directory |-> normalized_directory,
         level |-> level,
         whitelisted_ancestor_folders |-> whitelisted_ancestor_folders,
         current_whitelisted_ancestors |->
             ExtendAncestors(whitelisted_ancestor_folders, normalized_directory,
                             filter_mode, rules_folders),
         id |-> Len(calls) + 1,
         pc |-> "entry",
         items |-> <<>>,
         files_to_output |-> <<>>,
         dirs_to_recurse_info |-> <<>>,
         next |-> 1,
         processed_subdirs_with_content |-> <<>>,
         content_written_for_this_branch |-> FALSE]

\* the log entry of an invocation: its arguments; items, files_to_output and
\* the names of dirs_to_recurse_info are filled in when os.listdir returns,
\* returned and return_value when the invocation returns
CallRecord(f) ==
    [directory |-> f.directory, level |-> f.level,
     whitelisted_ancestor_folders |-> f.whitelisted_ancestor_folders,
     items |-> <<>>,
     files_to_output |-> <<>>,
     dirs_to_recurse |-> <<>>,
     returned |-> FALSE,
     return_value |-> FALSE]

\* the scope test that takes every directory of a Whitelist scan as in scope
InWhitelistedScopeAlways(directory, whitelisted_ancestor_folders, mode, folders) ==
    mode = FILTER_WHITELIST

\* the scope test that looks at the ancestors handed in only, not at folders
InWhitelistedScopeAncestorsOnly(directory, whitelisted_ancestor_folders, mode, folders) ==
    /\ mode = FILTER_WHITELIST
    /\ \E i \in 1..Len(whitelisted_ancestor_folders) :
           StartsWith(directory, whitelisted_ancestor_folders[i] \o <<Sep>>)

\* lines 97-105 and 163-171: the scope test of the heading and error decisions
InWhitelistedScope(directory, whitelisted_ancestor_folders, mode, folders) ==
    /\ mode = FILTER_WHITELIST
    /\ \/ directory \in folders
       \/ \E i \in 1..Len(whitelisted_ancestor_folders) :
              StartsWith(directory, whitelisted_ancestor_folders[i] \o <<Sep>>)

\* the test that looks for whitelisted folders only, not for whitelisted files
CanContainWhitelistedFolder(item_path, files, folders) ==
    \E rfo_path \in folders :
        \/ rfo_path = item_path
        \/ StartsWith(rfo_path, item_path \o <<Sep>>)

\* the test that accepts a rule path that merely starts like the folder's path
CanContainWhitelistedNoSep(item_path, files, folders) ==
    \/ \E rf_path \in files : StartsWith(rf_path, item_path)
    \/ \E rfo_path \in folders : StartsWith(rfo_path, item_path)

\* lines 129-142: may a folder that is not processable hold whitelisted items
CanContainWhitelisted(item_path, files, folders) ==
    \/ \E rf_path \in files : StartsWith(rf_path, item_path \o <<Sep>>)
    \/ \E rfo_path \in folders :
           \/ rfo_path = item_path
           \/ StartsWith(rfo_path, item_path \o <<Sep>>)

\* lines 119-128: is the entry kept by the inclusion test
Processable(directory, item_name, ancestors) ==
    LET normalized_item_path == NormPath(Join(directory, item_name))
    IN  should_process_item(normalized_item_path, isfile(normalized_item_path),
                            rules_files, rules_folders, filter_mode, ancestors)

\* lines 129-143: a folder recursed into although the inclusion test rejects it
RecursedAnyway(directory, item_name) ==
    LET normalized_item_path == NormPath(Join(directory, item_name))
    IN  /\ filter_mode = FILTER_WHITELIST
        /\ ~ isfile(normalized_item_path)
        /\ CanContainWhitelisted(normalized_item_path, rules_files, rules_folders)

\* list.sort() of names that skips the sort
SortNamesUnsorted(names) == names

\* lines 146-147: list.sort() on names
SortNames(names) == SortSeq(names, StrLess)

\* lines 119-146: files_to_output after the loop and the sort
FilesToOutput(directory, items, ancestors) ==
    SortNames(SelectSeq(items,
        LAMBDA n : /\ isfile(NormPath(Join(directory, n)))
                   /\ Processable(directory, n, ancestors)))

\* dirs_to_recurse_info with the test of lines 129-143 made for every folder,
\* the folders the inclusion test keeps included
DirsToRecurseBothTests(directory, items, ancestors) ==
    LET names == SortNames(
                     SelectSeq(items,
                         LAMBDA n : /\ ~ isfile(NormPath(Join(directory, n)))
                                    /\ Processable(directory, n, ancestors))
                     \o SelectSeq(items,
                         LAMBDA n : RecursedAnyway(directory, n)))
    IN  [i \in 1..Len(names) |->
            [name |-> names[i],
             path |-> NormPath(Join(directory, names[i])),
             ancestors |-> ancestors]]

\* lines 119-147: dirs_to_recurse_info after the loop and the sort
DirsToRecurse(directory, items, ancestors) ==
    LET names == SortNames(SelectSeq(items,
                     LAMBDA n : /\ ~ isfile(NormPath(Join(directory, n)))
                                /\ \/ Processable(directory, n, ancestors)
                                   \/ RecursedAnyway(directory, n)))
    IN  [i \in 1..Len(names) |->
            [name |-> names[i],
             path |-> NormPath(Join(directory, names[i])),
             ancestors |-> ancestors]]

Top == stack[Len(stack)]
Caller == SubSeq(stack, 1, Len(stack) - 1)

\* the return that reports content whatever the invocation wrote
ReturnToAlwaysTrue(callers, value) ==
    /\ calls' = [calls EXCEPT ![Top.id].returned = TRUE,
                              ![Top.id].return_value = TRUE]
    /\ IF callers = <<>>
       THEN /\ stack' = <<>>
            /\ phase' = "done"
            /\ result' = TRUE
       ELSE LET c == callers[Len(callers)]
                dir_info == c.dirs_to_recurse_info[c.next]
                c2 == [c EXCEPT
                         !.content_written_for_this_branch = TRUE,
                         !.processed_subdirs_with_content = Append(@, dir_info.name),
                         !.next = @ + 1]
            IN  /\ stack' = [callers EXCEPT ![Len(callers)] = c2]
                /\ UNCHANGED <<phase, result>>

\* lines 157-159 in the caller, or the end of the scan for the outermost call
ReturnTo(callers, value) ==
    /\ calls' = [calls EXCEPT ![Top.id].returned = TRUE,
                              ![Top.id].return_value = value]
    /\ IF callers = <<>>
       THEN /\ stack' = <<>>
            /\ phase' = "done"
            /\ result' = value
       ELSE LET c == callers[Len(callers)]
                dir_info == c.dirs_to_recurse_info[c.next]
                c2 == [c EXCEPT
                         !.content_written_for_this_branch = @ \/ value,
                         !.processed_subdirs_with_content =
                             IF value THEN Append(@, dir_info.name) ELSE @,
                         !.next = @ + 1]
            IN  /\ stack' = [callers EXCEPT ![Len(callers)] = c2]
                /\ UNCHANGED <<phase, result>>

\* should_write_header that gives an empty directory its header at any level
ShouldWriteHeaderAnyLevel(mode, in_scope, files_to_output, processed, items, level) ==
    IF mode = FILTER_BLACKLIST
    THEN files_to_output # <<>> \/ processed # <<>> \/ items = <<>>
    ELSE IF mode = FILTER_WHITELIST
    THEN \/ in_scope /\ (files_to_output # <<>> \/ processed # <<>> \/ items = <<>>)
         \/ files_to_output # <<>>
         \/ processed # <<>>
    ELSE FALSE

\* should_write_header without the case of the empty directory at level 0
ShouldWriteHeaderNonEmpty(mode, in_scope, files_to_output, processed, items, level) ==
    IF mode = FILTER_BLACKLIST
    THEN files_to_output # <<>> \/ processed # <<>>
    ELSE IF mode = FILTER_WHITELIST
    THEN \/ in_scope /\ (files_to_output # <<>> \/ processed # <<>> \/ items = <<>>)
         \/ files_to_output # <<>>
         \/ processed # <<>>
    ELSE FALSE

\* should_write_header that gives no header to a Whitelist directory out of
\* scope
ShouldWriteHeaderInScopeOnly(mode, in_scope, files_to_output, processed, items, level) ==
    IF mode = FILTER_BLACKLIST
    THEN \/ files_to_output # <<>>
         \/ processed # <<>>
         \/ (items = <<>> /\ level = 0 /\ files_to_output = <<>> /\ processed = <<>>)
    ELSE IF mode = FILTER_WHITELIST
    THEN in_scope /\ (files_to_output # <<>> \/ processed # <<>> \/ items = <<>>)
    ELSE FALSE

\* should_write_header that leaves out the sub-directories with content: a
\* directory gets its header for its own files or for being empty only
ShouldWriteHeaderOwnContent(mode, in_scope, files_to_output, processed, items, level) ==
    IF mode = FILTER_BLACKLIST
    THEN \/ files_to_output # <<>>
         \/ (items = <<>> /\ level = 0 /\ files_to_output = <<>> /\ processed = <<>>)
    ELSE IF mode = FILTER_WHITELIST
    THEN \/ in_scope /\ (files_to_output # <<>> \/ items = <<>>)
         \/ files_to_output # <<>>
    ELSE FALSE

\* lines 173-188: should_write_header
ShouldWriteHeader(mode, in_scope, files_to_output, processed, items, level) ==
    IF mode = FILTER_BLACKLIST
    THEN \/ files_to_output # <<>>
         \/ processed # <<>>
         \/ (items = <<>> /\ level = 0 /\ files_to_output = <<>> /\ processed = <<>>)
    ELSE IF mode = FILTER_WHITELIST
    THEN \/ in_scope /\ (files_to_output # <<>> \/ processed # <<>> \/ items = <<>>)
         \/ files_to_output # <<>>
         \/ processed # <<>>
    ELSE FALSE

\* the file loop that a read failure ends: the files after the first
\* unreadable one are not emitted
FileBlocksStopAtError(directory, files_to_output) ==
    LET failing == {k \in 1..Len(files_to_output) :
                       NormPath(Join(directory, files_to_output[k])) \in unreadable}
        last == IF failing = {} THEN Len(files_to_output)
                ELSE CHOOSE k \in failing : \A j \in failing : k <= j
    IN  [i \in 1..(2 * last) |->
            LET file_name == files_to_output[(i + 1) \div 2]
                normalized_file_path == NormPath(Join(directory, file_name))
            IN  IF i % 2 = 1
                THEN Event("File", normalized_file_path, 0)
                ELSE IF normalized_file_path \in unreadable
                     THEN Event("FileError", normalized_file_path, 0)
                     ELSE Event("Content", normalized_file_path, 0)]

\* lines 203-217: per file the File line, then its fenced content or, when
\* reading fails, the inline error annotation
FileBlocks(directory, files_to_output) ==
    [i \in 1..(2 * Len(files_to_output)) |->
        LET file_name == files_to_output[(i + 1) \div 2]
            normalized_file_path == NormPath(Join(directory, file_name))
        IN  IF i % 2 = 1
            THEN Event("File", normalized_file_path, 0)
            ELSE IF normalized_file_path \in unreadable
                 THEN Event("FileError", normalized_file_path, 0)
                 ELSE Event("Content", normalized_file_path, 0)]

\* the writes of a header whose heading levels stop at 4
DirectoryBlockClamped(f, in_scope) ==
    LET Clamp(n) == IF n > 4 THEN 4 ELSE n
    IN  <<Event("Directory", f.directory, Clamp(f.level + 2)),
          Event("Path", f.directory, 0)>>
        \o (IF f.files_to_output # <<>>
            THEN <<Event("Files", f.directory, Clamp(f.level + 3))>>
                 \o FileBlocks(f.directory, f.files_to_output)
            ELSE IF /\ f.items = <<>>
                    /\ f.processed_subdirs_with_content = <<>>
                    /\ \/ filter_mode = FILTER_BLACKLIST
                       \/ (filter_mode = FILTER_WHITELIST /\ in_scope)
                 THEN <<Event("Note", f.directory, 0)>>
                 ELSE <<>>)

\* lines 195-222: what an invocation that writes its header writes
DirectoryBlock(f, in_scope) ==
    <<Event("Directory", f.directory, f.level + 2), Event("Path", f.directory, 0)>>
    \o (IF f.files_to_output # <<>>
        THEN <<Event("Files", f.directory, f.level + 3)>>
             \o FileBlocks(f.directory, f.files_to_output)
        ELSE IF /\ f.items = <<>>
                /\ f.processed_subdirs_with_content = <<>>
                /\ \/ filter_mode = FILTER_BLACKLIST
                   \/ (filter_mode = FILTER_WHITELIST /\ in_scope)
             THEN <<Event("Note", f.directory, 0)>>
             ELSE <<>>)

\* lines 108-110: the error block of a directory that cannot be listed
ErrorBlock(f) ==
    <<Event("ErrorDirectory", f.directory, f.level + 2),
      Event("Path", f.directory, 0),
      Event("Error", f.directory, 0)>>

(***************************************************************************)
(* Initial states: a file system, a rule set and a mode.                   *)
(***************************************************************************)
Trees ==
    {t \in [AllPaths -> {"none", "file", "dir"}] :
        /\ t[ScanDir] = "dir"
        /\ \A p \in Candidates : t[p] # "none" => t[ParentOf(p)] = "dir"}

RuleSets(max) == {r \in SUBSET AllPaths : Cardinality(r) <= max}

Init ==
    /\ tree \in Trees
    /\ unlistable \in SUBSET {p \in AllPaths : tree[p] = "dir"}
    /\ unreadable \in SUBSET {p \in AllPaths : tree[p] = "file"}
    /\ Cardinality(unlistable) + Cardinality(unreadable) <= MaxFaults
    /\ rules_files \in RuleSets(MaxFileRules)
    /\ rules_folders \in RuleSets(MaxFolderRules)
    /\ filter_mode \in {FILTER_BLACKLIST, FILTER_WHITELIST}
    /\ phase = "idle"
    /\ run = 1
    /\ stack = <<>>
    /\ output_file = <<>>
    /\ previous_output = <<>>
    /\ previous_calls = <<>>
    /\ calls = <<>>
    /\ result = FALSE
    /\ probe = NoProbe
    /\ tree_blacklist = {}
    /\ tree_text = <<>>
    /\ scan_params = NoParams

(***************************************************************************)
(* Actions.                                                                *)
(***************************************************************************)
\* the seed that holds the scan directory whenever a folder rule names it,
\* whatever the mode
InitialWhitelistedAncestorsAnyMode(scan_dir_norm, mode, folders) ==
    IF scan_dir_norm \in folders THEN <<scan_dir_norm>> ELSE <<>>

\* CodeScannerApp.py lines 949-951, QtCodeScannerApp.py lines 174-176: the
\* ancestors list the walk is started with
InitialWhitelistedAncestors(scan_dir_norm, mode, folders) ==
    IF mode = FILTER_WHITELIST /\ scan_dir_norm \in folders
    THEN <<scan_dir_norm>> ELSE <<>>

\* the scan that puts the scan directory to the inclusion test and walks it
\* only when it passes
RunScanFiltered ==
    /\ phase = "idle"
    /\ LET scan_dir_norm == ScanDir
           initial_whitelisted_ancestors ==
               InitialWhitelistedAncestors(scan_dir_norm, filter_mode, rules_folders)
           f == NewFrame(scan_dir_norm, 0, initial_whitelisted_ancestors)
       IN  IF should_process_item(scan_dir_norm, FALSE, rules_files, rules_folders,
                                  filter_mode, initial_whitelisted_ancestors)
           THEN /\ stack' = <<f>>
                /\ calls' = <<CallRecord(f)>>
                /\ phase' = "scan"
           ELSE /\ stack' = <<>>
                /\ calls' = <<>>
                /\ phase' = "done"
    /\ output_file' = <<>>
    /\ UNCHANGED <<config, run, previous_output, previous_calls, result, probe, renderer,
                   scan_params>>

\* _run_scan_thread / ScanWorker.run: seed the ancestors and walk the scan
\* directory at level 0
RunScan ==
    /\ phase = "idle"
    /\ LET scan_dir_norm == ScanDir
           initial_whitelisted_ancestors ==
               InitialWhitelistedAncestors(scan_dir_norm, filter_mode, rules_folders)
           f == NewFrame(scan_dir_norm, 0, initial_whitelisted_ancestors)
       IN  /\ stack' = <<f>>
           /\ calls' = <<CallRecord(f)>>
    /\ phase' = "scan"
    /\ output_file' = <<>>
    /\ UNCHANGED <<config, run, previous_output, previous_calls, result, probe, renderer, scan_params>>

\* lines 94-95 and 116-147: os.listdir succeeds; the entries are categorized
\* and the two lists sorted
ListDirectory ==
    /\ phase = "scan"
    /\ Top.pc = "entry"
    /\ Top.directory \notin unlistable
    /\ \E items \in Listings(Top.directory) :
       LET files_to_output ==
               FilesToOutput(Top.directory, items, Top.current_whitelisted_ancestors)
           dirs_to_recurse_info ==
               DirsToRecurse(Top.directory, items, Top.current_whitelisted_ancestors)
       IN  /\ stack' = [stack EXCEPT ![Len(stack)] =
                         [Top EXCEPT
                            !.pc = "loop",
                            !.items = items,
                            !.files_to_output = files_to_output,
                            !.dirs_to_recurse_info = dirs_to_recurse_info]]
           /\ calls' = [calls EXCEPT
                          ![Top.id].items = items,
                          ![Top.id].files_to_output =
                              stack'[Len(stack)].files_to_output,
                          ![Top.id].dirs_to_recurse =
                              [i \in DOMAIN stack'[Len(stack)].dirs_to_recurse_info |->
                                  stack'[Len(stack)].dirs_to_recurse_info[i].name]]
    /\ UNCHANGED <<config, phase, run, output_file, previous_output,
                   previous_calls, result, probe, renderer, scan_params>>

\* lines 96-114: os.listdir raises; the error block is written in Blacklist
\* mode or in whitelisted scope, and the invocation returns
ListDirectoryError ==
    /\ phase = "scan"
    /\ Top.pc = "entry"
    /\ Top.directory \in unlistable
    /\ LET written ==
               \/ filter_mode = FILTER_BLACKLIST
               \/ InWhitelistedScope(Top.directory, Top.whitelisted_ancestor_folders,
                                     filter_mode, rules_folders)
       IN  /\ output_file' = IF written THEN output_file \o ErrorBlock(Top)
                             ELSE output_file
           /\ ReturnTo(Caller, written)
    /\ UNCHANGED <<config, run, previous_output, previous_calls, probe, renderer, scan_params>>

\* the recursive call without the copies of lines 128 and 151: the list
\* extended for the child is the caller's own list
RecurseAliased ==
    /\ phase = "scan"
    /\ Top.pc = "loop"
    /\ Top.next <= Len(Top.dirs_to_recurse_info)
    /\ LET dir_info == Top.dirs_to_recurse_info[Top.next]
           next_level_ancestors ==
               ExtendAncestors(dir_info.ancestors, dir_info.path,
                               filter_mode, rules_folders)
           f == NewFrame(dir_info.path, Top.level + 1, next_level_ancestors)
           caller == [Top EXCEPT
                        !.current_whitelisted_ancestors = next_level_ancestors,
                        !.dirs_to_recurse_info =
                            [i \in DOMAIN @ |->
                                [@[i] EXCEPT !.ancestors = next_level_ancestors]]]
       IN  /\ stack' = Append([stack EXCEPT ![Len(stack)] = caller], f)
           /\ calls' = Append(calls, CallRecord(f))
    /\ UNCHANGED <<config, phase, run, output_file, previous_output,
                   previous_calls, result, probe, renderer, scan_params>>

\* lines 150-157: the recursive call on the next directory of the sorted list
Recurse ==
    /\ phase = "scan"
    /\ Top.pc = "loop"
    /\ Top.next <= Len(Top.dirs_to_recurse_info)
    /\ LET dir_info == Top.dirs_to_recurse_info[Top.next]
           next_level_ancestors ==
               ExtendAncestors(dir_info.ancestors, dir_info.path,
                               filter_mode, rules_folders)
           f == NewFrame(dir_info.path, Top.level + 1, next_level_ancestors)
       IN  /\ stack' = Append(stack, f)
           /\ calls' = Append(calls, CallRecord(f))
    /\ UNCHANGED <<config, phase, run, output_file, previous_output,
                   previous_calls, result, probe, renderer, scan_params>>

\* the invocation that lists its directory again when it finds nothing to
\* write for it
FinishOrListAgain ==
    /\ phase = "scan"
    /\ Top.pc = "loop"
    /\ Top.next > Len(Top.dirs_to_recurse_info)
    /\ LET in_scope == InWhitelistedScope(Top.directory,
                                          Top.whitelisted_ancestor_folders,
                                          filter_mode, rules_folders)
           should_write_header ==
               ShouldWriteHeader(filter_mode, in_scope, Top.files_to_output,
                                 Top.processed_subdirs_with_content, Top.items,
                                 Top.level)
       IN  IF should_write_header
           THEN /\ output_file' = output_file \o DirectoryBlock(Top, in_scope)
                /\ ReturnTo(Caller, TRUE)
           ELSE /\ output_file' = output_file
                /\ stack' = [stack EXCEPT ![Len(stack)].pc = "entry"]
                /\ UNCHANGED <<calls, phase, result>>
    /\ UNCHANGED <<config, run, previous_output, previous_calls, probe, renderer,
                   scan_params>>

\* lines 162-224: the header decision, the writes of this directory and the
\* return to the caller
Finish ==
    /\ phase = "scan"
    /\ Top.pc = "loop"
    /\ Top.next > Len(Top.dirs_to_recurse_info)
    /\ LET in_scope == InWhitelistedScope(Top.directory,
                                          Top.whitelisted_ancestor_folders,
                                          filter_mode, rules_folders)
           should_write_header ==
               ShouldWriteHeader(filter_mode, in_scope, Top.files_to_output,
                                 Top.processed_subdirs_with_content, Top.items,
                                 Top.level)
       IN  IF should_write_header
           THEN /\ output_file' = output_file \o DirectoryBlock(Top, in_scope)
                /\ ReturnTo(Caller, TRUE)
           ELSE /\ output_file' = output_file
                /\ ReturnTo(Caller, Top.content_written_for_this_branch)
    /\ UNCHANGED <<config, run, previous_output, previous_calls, probe, renderer, scan_params>>

\* _run_scan again on the unchanged tree with the same rules: the output file
\* is opened for writing anew
Rescan ==
    /\ phase = "done"
    /\ run = 1
    /\ phase' = "idle"
    /\ run' = 2
    /\ previous_output' = output_file
    /\ previous_calls' = calls
    /\ output_file' = <<>>
    /\ calls' = <<>>
    /\ result' = FALSE
    /\ UNCHANGED <<config, stack, probe, renderer, scan_params>>

Next ==
    \/ RunScan
    \/ ListDirectory
    \/ ListDirectoryError
    \/ Recurse
    \/ Finish
    \/ Rescan

Spec == Init /\ [][Next]_vars

\* a single scan of the tree: the walk from _run_scan_thread to the return of
\* the outermost process_directory
NextScan ==
    \/ RunScan
    \/ ListDirectory
    \/ ListDirectoryError
    \/ Recurse
    \/ Finish

SpecScan == Init /\ [][NextScan]_vars

\* the scans of the termination check: every file can be read (a failed
\* read changes the writes of an invocation, not its control flow) and the
\* file rules name at most the deepest path of the universe
InitFair ==
    /\ Init
    /\ unreadable = {}
    /\ rules_files \subseteq {PathAsBsA}

\* the single scan as the interpreter runs it: process_directory is
\* synchronous and single-threaded, so a scan with a step to take takes it
SpecScanFair == InitFair /\ [][NextScan]_vars /\ WF_vars(NextScan)

(***************************************************************************)
(* The rule evaluator on its own: one call of should_process_item on       *)
(* arguments drawn from the universe of paths.                             *)
(***************************************************************************)
\* item paths as callers may hand them in: normalized, or with a trailing
\* separator that os.path.normpath drops
ItemPaths == AllPaths \cup {p \o <<Sep>> : p \in AllPaths}

AncestorLists ==
    UNION {[1..n -> AllPaths] : n \in 0..MaxAncestors}

InitRule ==
    /\ tree = [p \in AllPaths |-> IF p = ScanDir THEN "dir" ELSE "none"]
    /\ unlistable = {}
    /\ unreadable = {}
    /\ rules_files = {}
    /\ rules_folders = {}
    /\ filter_mode = FILTER_BLACKLIST
    /\ phase = "rule"
    /\ run = 1
    /\ stack = <<>>
    /\ output_file = <<>>
    /\ previous_output = <<>>
    /\ previous_calls = <<>>
    /\ calls = <<>>
    /\ result = FALSE
    /\ probe \in [item_path : ItemPaths,
                  is_file : BOOLEAN,
                  files : RuleSets(MaxFileRules),
                  folders : RuleSets(MaxFolderRules),
                  mode : {FILTER_BLACKLIST, FILTER_WHITELIST, "other"},
                  whitelisted_parent_folders : AncestorLists,
                  called : {FALSE},
                  result : {FALSE},
                  result_CodebaseScanner : {FALSE}]
    /\ tree_blacklist = {}
    /\ tree_text = <<>>
    /\ scan_params = NoParams

\* one call of scan_engine.should_process_item, and of the function of the
\* same name of CodebaseScanner.py on the same arguments
EvaluateRule ==
    /\ phase = "rule"
    /\ ~ probe.called
    /\ probe' = [probe EXCEPT
                   !.called = TRUE,
                   !.result = should_process_item(probe.item_path, probe.is_file,
                                                  probe.files, probe.folders, probe.mode,
                                                  probe.whitelisted_parent_folders),
                   !.result_CodebaseScanner =
                       CodebaseScanner_should_process_item(
                           probe.item_path, probe.is_file, probe.files, probe.folders,
                           probe.mode, probe.whitelisted_parent_folders)]
    /\ UNCHANGED <<config, phase, run, stack, output_file, previous_output,
                   previous_calls, calls, result, renderer, scan_params>>

NextRule == EvaluateRule

SpecRule == InitRule /\ [][NextRule]_vars

(***************************************************************************)
(* TreeRenderer: generate_directory_tree_text, and the tree section that   *)
(* _run_scan_thread / ScanWorker.run write ahead of the scan.  A line of   *)
(* the text is a record: the prefix (a sequence of four-character units),  *)
(* the connector, the directory's base name, and the directory's path.     *)
(* The box-drawing connectors are written in ASCII.                        *)
(***************************************************************************)
LastConnector == "+-- "
MidConnector == "|-- "
LastIndent == "    "
MidIndent == "|   "

\* the blacklist test that skips nothing
TreeBlacklistedNever(normalized_start_path, blacklist) == FALSE

\* line 19: the blacklist test, by membership of the normalized path
TreeBlacklisted(normalized_start_path, blacklist) ==
    normalized_start_path \in blacklist

\* lines 22-30: the line of a directory
TreeLine(normalized_start_path, prefix, is_last) ==
    [prefix |-> prefix,
     connector |-> IF is_last THEN LastConnector ELSE MidConnector,
     name |-> BaseName(normalized_start_path),
     path |-> normalized_start_path]

\* lines 32-37: the names of the sub-directories os.scandir yields, sorted;
\* none when os.scandir raises
SubdirectoryEntries(normalized_start_path) ==
    IF normalized_start_path \in unlistable
    THEN <<>>
    ELSE LET S == {n \in Entries(normalized_start_path) :
                      tree[Join(normalized_start_path, n)] = "dir"}
         IN  SortNames(CHOOSE e \in [1..Cardinality(S) -> S] :
                           \A i, j \in DOMAIN e : e[i] = e[j] => i = j)

RECURSIVE generate_directory_tree_text(_, _, _, _)
RECURSIVE RenderEntries(_, _, _, _, _)

\* lines 39-42: the loop over the entries, from entry i on
RenderEntries(normalized_start_path, entries, i, blacklist, prefix) ==
    IF i > Len(entries)
    THEN <<>>
    ELSE generate_directory_tree_text(Join(normalized_start_path, entries[i]),
                                      blacklist, prefix, i = Len(entries))
         \o RenderEntries(normalized_start_path, entries, i + 1, blacklist, prefix)

\* lines 11-44
generate_directory_tree_text(start_path, blacklist, prefix, is_last) ==
    LET normalized_start_path == NormPath(start_path)
    IN  IF TreeBlacklisted(normalized_start_path, blacklist)
        THEN <<>>
        ELSE <<TreeLine(normalized_start_path, prefix, is_last)>>
             \o RenderEntries(normalized_start_path,
                              SubdirectoryEntries(normalized_start_path), 1, blacklist,
                              Append(prefix, IF is_last THEN LastIndent ELSE MidIndent))

TreeBlacklists == {b \in SUBSET ItemPaths : Cardinality(b) <= MaxTreeBlacklist}

InitTree ==
    /\ tree \in Trees
    /\ unlistable \in SUBSET {p \in AllPaths : tree[p] = "dir"}
    /\ Cardinality(unlistable) <= MaxFaults
    /\ unreadable = {}
    /\ rules_files = {}
    /\ rules_folders = {}
    /\ filter_mode = FILTER_BLACKLIST
    /\ phase = "tree"
    /\ run = 1
    /\ stack = <<>>
    /\ output_file = <<>>
    /\ previous_output = <<>>
    /\ previous_calls = <<>>
    /\ calls = <<>>
    /\ result = FALSE
    /\ probe = NoProbe
    /\ tree_blacklist \in TreeBlacklists
    /\ tree_text = <<>>
    /\ scan_params = [NoParams EXCEPT !.generate_tree = TRUE]

\* CodeScannerApp.py lines 928-933, QtCodeScannerApp.py lines 157-159: the
\* writes of the tree section
TreeSection(scan_dir_norm, tree_structure) ==
    <<Event("TreeHeader", scan_dir_norm, 0),
      IF tree_structure # <<>>
      THEN Event("Tree", scan_dir_norm, 0)
      ELSE Event("TreePlaceholder", scan_dir_norm, 0),
      Event("Separator", scan_dir_norm, 0)>>

\* CodeScannerApp.py lines 922-933, QtCodeScannerApp.py lines 152-159: the
\* tree header, the rendered tree or the placeholder when the text is empty,
\* and the separator
WriteTreeSection ==
    /\ phase = "tree"
    /\ LET scan_dir_norm == ScanDir
           normalized_tree_blacklist == {NormPath(p) : p \in tree_blacklist}
           tree_structure ==
               generate_directory_tree_text(scan_dir_norm, normalized_tree_blacklist,
                                            <<>>, TRUE)
       IN  /\ tree_text' = tree_structure
           /\ output_file' = TreeSection(scan_dir_norm, tree_structure)
    /\ phase' = "tree_done"
    /\ UNCHANGED <<config, run, stack, previous_output, previous_calls, calls,
                   result, probe, tree_blacklist, scan_params>>

NextTree == WriteTreeSection

SpecTree == InitTree /\ [][NextTree]_vars

(***************************************************************************)
(* DocumentWriter: the whole of _run_scan_thread / ScanWorker.run, from    *)
(* the opening of the output file to the return of the walk.  The lines    *)
(* written ahead of the walk carry their variable text.                    *)
(***************************************************************************)
TextEvent(kind, path, text) == [kind |-> kind, path |-> path, level |-> 0, text |-> text]

\* CodeScannerApp.py line 937, QtCodeScannerApp.py line 162
ModeDesc(mode) ==
    IF mode = FILTER_WHITELIST
    THEN "Whitelist (Including only listed paths)"
    ELSE "Blacklist (Excluding listed paths)"

\* CodeScannerApp.py lines 940-946, QtCodeScannerApp.py lines 165-171
RulesSourceDisplay(rules_path_display, rules_dirty) ==
    IF rules_path_display # <<>>
    THEN IF rules_dirty
         THEN "file (from path) - with unsaved modifications in GUI"
         ELSE "file (from path)"
    ELSE "Current GUI rules (No file or unsaved changes to a file)"

\* CodeScannerApp.py lines 936-947, QtCodeScannerApp.py lines 161-172: the
\* scan title, the mode line and the rules-source line
ScanHeader(scan_dir_norm, mode, params) ==
    <<TextEvent("Title", scan_dir_norm, BaseName(scan_dir_norm)),
      TextEvent("Mode", scan_dir_norm, ModeDesc(mode)),
      TextEvent("RulesFrom", params.rules_path_display,
                RulesSourceDisplay(params.rules_path_display, params.rules_dirty))>>

\* the preamble that opens with the scan title and puts the tree section
\* between the title and the mode line
DocumentPreambleTitleFirst(scan_dir_norm, mode, params, tree_structure) ==
    LET header == ScanHeader(scan_dir_norm, mode, params)
    IN  <<header[1]>>
        \o (IF params.generate_tree
            THEN TreeSection(scan_dir_norm, tree_structure) ELSE <<>>)
        \o <<header[2], header[3]>>

\* CodeScannerApp.py lines 920-947, QtCodeScannerApp.py lines 151-172: what
\* is written ahead of the walk
DocumentPreamble(scan_dir_norm, mode, params, tree_structure) ==
    (IF params.generate_tree
     THEN TreeSection(scan_dir_norm, tree_structure) ELSE <<>>)
    \o ScanHeader(scan_dir_norm, mode, params)

\* the path of a rules file, outside the scan directory
RulesFilePath == Join(<<Sep>>, NameB)

ScanParams ==
    {sp \in [generate_tree : BOOLEAN,
             rules_path_display : {<<>>, RulesFilePath},
             rules_dirty : BOOLEAN] :
        sp.rules_path_display = <<>> => ~ sp.rules_dirty}

\* the file systems of the document runs: entries directly in the scan
\* directory
DocTrees == {t \in Trees : t[PathAsB] = "none"}

\* the folder rules and the tree blacklists of the document runs
DocPathSets(max) == {r \in RuleSets(max) : r \subseteq {ScanDir, PathA}}

InitDoc ==
    /\ tree \in DocTrees
    /\ unlistable \in SUBSET {p \in AllPaths : tree[p] = "dir"}
    /\ unreadable \in SUBSET {p \in AllPaths : tree[p] = "file"}
    /\ Cardinality(unlistable) + Cardinality(unreadable) <= MaxFaults
    /\ rules_files = {}
    /\ rules_folders \in DocPathSets(MaxFolderRules)
    /\ filter_mode \in {FILTER_BLACKLIST, FILTER_WHITELIST}
    /\ phase = "document"
    /\ run = 1
    /\ stack = <<>>
    /\ output_file = <<>>
    /\ previous_output = <<>>
    /\ previous_calls = <<>>
    /\ calls = <<>>
    /\ result = FALSE
    /\ probe = NoProbe
    /\ tree_blacklist \in DocPathSets(MaxTreeBlacklist)
    /\ tree_text = <<>>
    /\ scan_params \in ScanParams

\* CodeScannerApp.py lines 920-962, QtCodeScannerApp.py lines 151-182: the
\* output file is opened, the tree section (when enabled), the scan title,
\* the mode line and the rules-source line are written, and the walk is
\* started on the scan directory
RunDocument ==
    /\ phase = "document"
    /\ LET scan_dir_norm == ScanDir
           normalized_tree_blacklist == {NormPath(p) : p \in tree_blacklist}
           tree_structure ==
               IF scan_params.generate_tree
               THEN generate_directory_tree_text(scan_dir_norm,
                                                 normalized_tree_blacklist, <<>>, TRUE)
               ELSE <<>>
           initial_whitelisted_ancestors ==
               InitialWhitelistedAncestors(scan_dir_norm, filter_mode, rules_folders)
           f == NewFrame(scan_dir_norm, 0, initial_whitelisted_ancestors)
       IN  /\ tree_text' = tree_structure
           /\ output_file' =
                  DocumentPreamble(scan_dir_norm, filter_mode, scan_params, tree_structure)
           /\ stack' = <<f>>
           /\ calls' = <<CallRecord(f)>>
    /\ phase' = "scan"
    /\ UNCHANGED <<config, run, previous_output, previous_calls, result, probe,
                   tree_blacklist, scan_params>>

NextDoc ==
    \/ RunDocument
    \/ ListDirectory
    \/ ListDirectoryError
    \/ Recurse
    \/ Finish

SpecDoc == InitDoc /\ [][NextDoc]_vars

(***************************************************************************)
(* Vocabulary of the properties.                                           *)
(***************************************************************************)
\* the normalized path an item path denotes
Denoted(item_path) == CHOOSE p \in AllPaths : item_path \in {p, p \o <<Sep>>}

Done == phase = "done"

\* the output holds a write of this kind for this path
Has(kind, path) ==
    \E i \in DOMAIN output_file :
        output_file[i].kind = kind /\ output_file[i].path = path

\* process_directory was invoked on the directory
Visited(directory) == \E i \in DOMAIN calls : calls[i].directory = directory

Exists(p) == tree[p] # "none"
IsDir(p) == tree[p] = "dir"
IsFile(p) == tree[p] = "file"

(***************************************************************************)
(* Properties of should_process_item (specification SpecRule).             *)
(***************************************************************************)
\* C1 (P1, blacklist completeness): in Blacklist mode the result for a file
\* path f is true exactly when f is in no file rule and is nested under no
\* folder rule, whatever the whitelisted-ancestors argument is.
C1_BlacklistCompleteness ==
    (probe.called /\ probe.mode = FILTER_BLACKLIST /\ probe.is_file) =>
        LET f == Denoted(probe.item_path)
        IN  probe.result =
                ~ (\/ f \in probe.files
                   \/ \E F \in probe.folders : NestedUnder(f, F))

\* a Blacklist call on a file nested under a folder rule, itself in no file
\* rule, with the file's own path among the whitelisted ancestors: rejected
C1_Witness ==
    /\ probe.called
    /\ probe.mode = FILTER_BLACKLIST
    /\ probe.is_file
    /\ Denoted(probe.item_path) \notin probe.files
    /\ \E F \in probe.folders : NestedUnder(Denoted(probe.item_path), F)
    /\ probe.whitelisted_parent_folders = <<Denoted(probe.item_path)>>
    /\ probe.result = FALSE

\* C2: in Whitelist mode the result follows the ordered decision table: an
\* item equal to or nested under a whitelisted ancestor is included whatever
\* isFile and the rules are; otherwise a file is included iff it is in files
\* and a directory iff it is in folders.
C2_WhitelistDecisionTable ==
    (probe.called /\ probe.mode = FILTER_WHITELIST) =>
        LET p == Denoted(probe.item_path)
            anc == probe.whitelisted_parent_folders
        IN  probe.result =
                IF \E i \in DOMAIN anc : p = anc[i] \/ NestedUnder(p, anc[i])
                THEN TRUE
                ELSE IF probe.is_file THEN p \in probe.files
                     ELSE p \in probe.folders

\* a Whitelist call on a file in no rule list, nested under a whitelisted
\* ancestor while a folder rule names the file's own path: included
C2_Witness ==
    /\ probe.called
    /\ probe.mode = FILTER_WHITELIST
    /\ probe.is_file
    /\ Denoted(probe.item_path) \notin probe.files
    /\ Denoted(probe.item_path) \in probe.folders
    /\ \E i \in DOMAIN probe.whitelisted_parent_folders :
           NestedUnder(Denoted(probe.item_path), probe.whitelisted_parent_folders[i])
    /\ probe.result = TRUE

\* C19 (inclusive, uniform folder-rule membership): in Blacklist mode a path
\* P counts as inside folder rule F exactly when P = F or P starts with F
\* followed by the separator, for files as for directories: the result is
\* false iff P is inside some folder rule or, for a file, P is in files; so a
\* file whose path equals a folder rule is excluded as a directory is.
C19_InclusiveFolderMembership ==
    (probe.called /\ probe.mode = FILTER_BLACKLIST) =>
        LET P == Denoted(probe.item_path)
            inside == \E F \in probe.folders :
                          P = F \/ StartsWith(P, F \o <<Sep>>)
        IN  probe.result = ~ (inside \/ (probe.is_file /\ P \in probe.files))

\* C30 (variant equivalence): scan_engine.should_process_item and
\* CodebaseScanner.should_process_item return the same result for every item
\* path, is_file, files, folders, mode and whitelisted ancestors.
C30_VariantEquivalence ==
    probe.called => probe.result = probe.result_CodebaseScanner

(***************************************************************************)
(* Properties of process_directory (specification SpecScan; Spec, with its *)
(* second scan, for the determinism of the output).                        *)
(***************************************************************************)
\* every directory above p, from the scan directory down, can be listed
AncestorsListable(p) == \A a \in AllPaths : IsAncestor(a, p) => a \notin unlistable

\* the heading of a directory, followed by its Path line
HeadingFor(d) ==
    \E i \in DOMAIN output_file :
        /\ output_file[i].kind = "Directory" /\ output_file[i].path = d
        /\ i + 1 \in DOMAIN output_file
        /\ output_file[i + 1].kind = "Path" /\ output_file[i + 1].path = d

\* the error block of a directory
ErrorBlockFor(d) == Has("ErrorDirectory", d)

\* the File line of a file, followed by a write of the given kind
FileLineThen(f, kind) ==
    \E i \in DOMAIN output_file :
        /\ output_file[i].kind = "File" /\ output_file[i].path = f
        /\ i + 1 \in DOMAIN output_file
        /\ output_file[i + 1].kind = kind /\ output_file[i + 1].path = f

\* the file is emitted: its File line, then the content block or, when the
\* file cannot be read, the inline error annotation
FileEmitted(f) ==
    IF f \in unreadable THEN FileLineThen(f, "FileError") ELSE FileLineThen(f, "Content")

\* some write of the output is about the path
Mentioned(p) == \E i \in DOMAIN output_file : output_file[i].path = p

\* the directory or file p produced output of its own
Produced(p) ==
    IF IsFile(p) THEN Has("File", p)
    ELSE Has("Directory", p) \/ Has("ErrorDirectory", p)

ChildrenOf(d) == {c \in Candidates : Exists(c) /\ ParentOf(c) = d}

\* P is F or lies below F, and F is a whitelisted folder of the tree
UnderWhitelistedFolder(P) ==
    \E F \in rules_folders : IsDir(F) /\ (P = F \/ NestedUnder(P, F))

\* C3 as stated (P2): in Whitelist mode every file under a whitelisted folder
\* has a content block and every directory under it (the folder included) has
\* a heading.
C3_AsStated ==
    (Done /\ filter_mode = FILTER_WHITELIST) =>
        \A P \in AllPaths :
            (Exists(P) /\ UnderWhitelistedFolder(P)) =>
                /\ IsFile(P) => Has("Content", P)
                /\ IsDir(P) => Has("Directory", P)

\* C3 amended (P2, whitelist propagation): in Whitelist mode, for every
\* whitelisted folder F and every P of the tree with P = F or P below F whose
\* ancestors can all be listed, the walk from the scan directory writes, for a
\* file, its File line followed by the content block (by the error annotation
\* when the file cannot be read) and, for a directory, its heading and Path
\* line (its error block when it cannot be listed), whether or not P is in a
\* rule list.
C3_WhitelistPropagation ==
    (Done /\ filter_mode = FILTER_WHITELIST) =>
        \A P \in AllPaths :
            (Exists(P) /\ UnderWhitelistedFolder(P) /\ AncestorsListable(P)) =>
                /\ IsFile(P) => FileEmitted(P)
                /\ IsDir(P) =>
                      IF P \in unlistable THEN ErrorBlockFor(P) ELSE HeadingFor(P)

\* /p/a is whitelisted below the scan directory; the file /p/a/b/a, two levels
\* below it and in no rule list, has its content block, and /p/a/b its heading
C3_Witness ==
    /\ Done
    /\ filter_mode = FILTER_WHITELIST
    /\ rules_folders = {PathA}
    /\ rules_files = {}
    /\ IsFile(PathAsBsA)
    /\ FileLineThen(PathAsBsA, "Content")
    /\ HeadingFor(PathAsB)
    /\ HeadingFor(PathA)

\* P is out of whitelist scope: below no whitelisted folder and not listed in
\* the rule set of its kind
OutOfScope(P) ==
    /\ Exists(P)
    /\ ~ \E F \in rules_folders : NestedUnder(P, F)
    /\ IsFile(P) => P \notin rules_files
    /\ IsDir(P) => P \notin rules_folders

\* C4 as stated (P3): in Whitelist mode nothing is written for a file or a
\* folder that is out of scope.
C4_AsStated ==
    (Done /\ filter_mode = FILTER_WHITELIST) =>
        \A P \in AllPaths :
            OutOfScope(P) =>
                /\ ~ Has("Directory", P)
                /\ ~ Has("Path", P)
                /\ ~ Has("File", P)
                /\ ~ Has("Content", P)

\* C4 amended (P3, whitelist exact-miss exclusion): in Whitelist mode an
\* out-of-scope file gets no File line and no file block; an out-of-scope
\* folder gets no error block and no 'empty or excluded' note, and gets a
\* heading and Path line only as a pass-through, when a file directly in it is
\* emitted or one of its child directories produced output.
C4_WhitelistExactMiss ==
    (Done /\ filter_mode = FILTER_WHITELIST) =>
        \A P \in AllPaths :
            OutOfScope(P) =>
                /\ IsFile(P) => ~ Mentioned(P)
                /\ IsDir(P) =>
                      /\ ~ Has("ErrorDirectory", P)
                      /\ ~ Has("Error", P)
                      /\ ~ Has("Note", P)
                      /\ (Has("Directory", P) \/ Has("Path", P) \/ Has("Files", P)) =>
                             \E c \in ChildrenOf(P) : Produced(c)

\* the file rule /p/a/b makes /p and /p/a pass-through headings, while the
\* file /p/ab and the empty directory-free rest stay out of the output
C4_Witness ==
    /\ Done
    /\ filter_mode = FILTER_WHITELIST
    /\ rules_files = {PathAsB}
    /\ rules_folders = {}
    /\ IsFile(PathAsB)
    /\ IsFile(PathAB)
    /\ OutOfScope(PathAB) /\ ~ Mentioned(PathAB)
    /\ OutOfScope(PathA) /\ Has("Directory", PathA)
    /\ Has("File", PathAsB)

\* a file the Blacklist rules do not exclude
NotBlacklisted(f) ==
    /\ f \notin rules_files
    /\ ~ \E F \in rules_folders : NestedUnder(f, F)

\* nothing is written for d or for anything below d
Silent(d) ==
    \A i \in DOMAIN output_file :
        output_file[i].path # d /\ ~ NestedUnder(output_file[i].path, d)

SiblingFilesOf(d) ==
    IF d = ScanDir THEN {}
    ELSE {s \in ChildrenOf(ParentOf(d)) : s # d /\ IsFile(s)}

\* C5 as stated (Scenario A): in Blacklist mode every directory of the tree
\* that equals a folder rule is never listed, nothing is written for it or
\* below it, and every non-excluded sibling file is emitted.
C5_AsStated ==
    (Done /\ filter_mode = FILTER_BLACKLIST) =>
        \A D \in rules_folders :
            IsDir(D) =>
                /\ ~ Visited(D)
                /\ Silent(D)
                /\ \A s \in SiblingFilesOf(D) : NotBlacklisted(s) => FileEmitted(s)

\* C5 amended (Scenario A generalised): in Blacklist mode every directory of
\* the tree other than the scan directory that equals a folder rule is never
\* listed and nothing (heading, Path line, file block, error block) is written
\* for it or below it, while every non-excluded sibling file is emitted when
\* the directories from the scan directory down to their parent can be listed.
C5_BlacklistedFolderSilent ==
    (Done /\ filter_mode = FILTER_BLACKLIST) =>
        \A D \in rules_folders :
            (IsDir(D) /\ D # ScanDir) =>
                /\ ~ Visited(D)
                /\ Silent(D)
                /\ \A s \in SiblingFilesOf(D) :
                       (NotBlacklisted(s) /\ AncestorsListable(s)) => FileEmitted(s)

\* the folder rule /p/a excludes the directory /p/a and /p/a/b below it; the
\* sibling file /p/ab, whose name starts like the excluded one, is emitted
C5_Witness ==
    /\ Done
    /\ filter_mode = FILTER_BLACKLIST
    /\ rules_folders = {PathA}
    /\ IsDir(PathA) /\ Exists(PathAsB)
    /\ ~ Visited(PathA) /\ Silent(PathA)
    /\ IsFile(PathAB) /\ FileLineThen(PathAB, "Content")

\* the number of directory headings in the output
HeadingCount ==
    Cardinality({i \in DOMAIN output_file : output_file[i].kind = "Directory"})

\* the directories holding an emitted file or a child with output
DirsWithContent ==
    {d \in AllPaths : IsDir(d) /\ \E c \in ChildrenOf(d) : Produced(c)}

\* C6 as stated (P5): after a Blacklist walk the number of headings is the
\* number of directories with an emitted file or a child with output, plus the
\* scan directory, which always has a heading.
C6_AsStated ==
    (Done /\ filter_mode = FILTER_BLACKLIST) =>
        HeadingCount = Cardinality(DirsWithContent \cup {ScanDir})

\* C6 amended (P5, heading count): after a Blacklist walk from the scan
\* directory the number of directory headings equals the number of
\* directories that hold an emitted file or a child with output, plus the scan
\* directory when it was listed and has no entries at all.
C6_HeadingCount ==
    (Done /\ filter_mode = FILTER_BLACKLIST) =>
        HeadingCount =
            Cardinality(DirsWithContent \cup
                {d \in {ScanDir} : d \notin unlistable /\ ChildrenOf(d) = {}})

\* a Blacklist walk with one heading, for /p which holds the emitted file
\* /p/ab: the visited directories /p/a and /p/a/b, whose only file is
\* excluded by a rule, have none
C6_Witness ==
    /\ Done
    /\ filter_mode = FILTER_BLACKLIST
    /\ HeadingCount = Cardinality({ScanDir})
    /\ HeadingFor(ScanDir)
    /\ Visited(PathA) /\ ~ Has("Directory", PathA)
    /\ rules_files = {PathAsBsA}
    /\ IsFile(PathAsBsA) /\ Visited(PathAsB) /\ ~ Has("Directory", PathAsB)
    /\ IsFile(PathAB) /\ Has("File", PathAB)

\* C7 (P4, determinism): a second walk over the unchanged tree with the same
\* rules and mode writes exactly the sequence the first walk wrote, whatever
\* order os.listdir returned the entries in during either walk.
C7_Determinism ==
    (Done /\ run = 2) => output_file = previous_output

\* two finished walks whose listings of the scan directory came in different
\* orders, with two files of the scan directory in the output
C7_Witness ==
    /\ Done
    /\ run = 2
    /\ calls[1].items # previous_calls[1].items
    /\ Has("File", PathA)
    /\ Has("File", PathAB)
    /\ output_file = previous_output

\* the writes that belong to directory d itself: its Files sub-heading and
\* the lines and blocks of the files directly in it
OwnFileWrite(e, d) ==
    \/ e.kind = "Files" /\ e.path = d
    \/ e.kind \in {"File", "Content", "FileError"} /\ e.path # ScanDir /\ ParentOf(e.path) = d

\* C8 (pre-order headings): the heading of a directory D, with its Path line
\* right after it, is written before D's own file blocks and before the
\* heading of every directory below D.
C8_PreOrderHeadings ==
    \A i \in DOMAIN output_file :
        output_file[i].kind = "Directory" =>
            \A j \in DOMAIN output_file :
                (\/ OwnFileWrite(output_file[j], output_file[i].path)
                 \/ /\ output_file[j].kind = "Directory"
                    /\ NestedUnder(output_file[j].path, output_file[i].path))
                => i < j

\* C9 as stated (Scenario D): in Whitelist mode with the single file rule T,
\* an existing file below the scan directory, and no folder rule, the walk
\* writes a heading for every directory from the scan directory down to T, the
\* content block of T, and no 'empty or excluded' note for those directories.
C9_AsStated ==
    (Done /\ filter_mode = FILTER_WHITELIST /\ rules_folders = {}) =>
        \A T \in Candidates :
            (rules_files = {T} /\ IsFile(T)) =>
                /\ \A d \in AllPaths : IsAncestor(d, T) => HeadingFor(d) /\ ~ Has("Note", d)
                /\ FileLineThen(T, "Content")

\* C9 amended (Scenario D generalised): in Whitelist mode with the single file
\* rule T, an existing file any number of levels below the scan directory, and
\* no folder rule, when every directory from the scan directory down to T can
\* be listed the walk writes a heading and Path line for each of them and no
\* 'empty or excluded' note, and writes T's File line followed by its content
\* block, or by the inline error annotation when T cannot be read.
C9_PassThroughHeadings ==
    (Done /\ filter_mode = FILTER_WHITELIST /\ rules_folders = {}) =>
        \A T \in Candidates :
            (rules_files = {T} /\ IsFile(T) /\ AncestorsListable(T)) =>
                /\ \A d \in AllPaths : IsAncestor(d, T) => HeadingFor(d) /\ ~ Has("Note", d)
                /\ FileEmitted(T)

\* the file rule /p/a/b/a, three levels down: headings for /p, /p/a and
\* /p/a/b, the content block of the file, and nothing for the sibling /p/ab
C9_Witness ==
    /\ Done
    /\ filter_mode = FILTER_WHITELIST
    /\ rules_folders = {}
    /\ rules_files = {PathAsBsA}
    /\ IsFile(PathAsBsA)
    /\ HeadingFor(ScanDir) /\ HeadingFor(PathA) /\ HeadingFor(PathAsB)
    /\ FileLineThen(PathAsBsA, "Content")
    /\ Exists(PathAB) /\ ~ Mentioned(PathAB)

\* the Whitelist test for recursing into child directory C: below a
\* whitelisted folder, or listed in folders, or above a rule path
WorthRecursing(C) ==
    \/ \E F \in rules_folders : NestedUnder(C, F)
    \/ C \in rules_folders
    \/ \E r \in rules_files \cup rules_folders : NestedUnder(r, C)

\* the directories that were listed successfully
Listed(d) == Visited(d) /\ d \notin unlistable

\* C10 (whitelist recursion pruning, Scenario B generalised): in a finished
\* Whitelist walk, a child directory C of a listed directory was recursed into
\* iff C is below a whitelisted ancestor, or C is in folders, or some path of
\* files or folders is nested beneath C; a child failing all three was never
\* listed and nothing was written for it or below it.
C10_WhitelistPruning ==
    (Done /\ filter_mode = FILTER_WHITELIST) =>
        \A C \in Candidates :
            (IsDir(C) /\ Listed(ParentOf(C))) =>
                /\ Visited(C) <=> WorthRecursing(C)
                /\ ~ WorthRecursing(C) => Silent(C)

\* the folder rule /p/ab: the sibling directory /p/a, whose name is a prefix
\* of the rule's, fails all three tests and is pruned with the file below it,
\* while /p/ab is recursed into
C10_Witness ==
    /\ Done
    /\ filter_mode = FILTER_WHITELIST
    /\ rules_folders = {PathAB}
    /\ rules_files = {}
    /\ IsDir(PathA) /\ IsFile(PathAsB)
    /\ ~ Visited(PathA) /\ Silent(PathA)
    /\ IsDir(PathAB) /\ Visited(PathAB) /\ HeadingFor(PathAB)

\* the log entry of the invocation on a directory (each directory is walked
\* at most once in a scan)
CallOf(d) == calls[CHOOSE i \in DOMAIN calls : calls[i].directory = d]

\* C11 (Scenario C): a Blacklist walk at level 0 of a scan directory whose
\* listing holds zero entries writes exactly the heading of the scan directory,
\* its Path line and the note that the directory is empty or excluded, writes
\* no Files sub-heading, and returns true.
C11_EmptyRoot ==
    (/\ Done
     /\ filter_mode = FILTER_BLACKLIST
     /\ Listed(ScanDir)
     /\ CallOf(ScanDir).level = 0
     /\ CallOf(ScanDir).items = <<>>) =>
        /\ output_file = <<Event("Directory", ScanDir, 2),
                           Event("Path", ScanDir, 0),
                           Event("Note", ScanDir, 0)>>
        /\ ~ \E i \in DOMAIN output_file : output_file[i].kind = "Files"
        /\ result = TRUE
        /\ CallOf(ScanDir).return_value = TRUE

\* a finished Blacklist walk of an empty scan directory, with rules that name
\* the scan directory's own path as a file, that wrote its three lines
C11_Witness ==
    /\ Done
    /\ filter_mode = FILTER_BLACKLIST
    /\ ChildrenOf(ScanDir) = {}
    /\ unlistable = {}
    /\ rules_files = {ScanDir}
    /\ Len(output_file) = 3
    /\ output_file[3].kind = "Note"
    /\ result = TRUE

\* D is in whitelisted scope: listed in folders, or below a folder of folders
InScope(D) ==
    \/ D \in rules_folders
    \/ \E F \in rules_folders : NestedUnder(D, F)

\* the writes about d and about everything below d, in the order written
WritesOf(d) ==
    SelectSeq(output_file, LAMBDA e : e.path = d \/ NestedUnder(e.path, d))

\* the sibling directories of D that its parent recurses into after D
LaterSiblingsOf(D) ==
    IF D = ScanDir THEN {}
    ELSE {S \in ChildrenOf(ParentOf(D)) :
            /\ IsDir(S)
            /\ StrLess(BaseName(D), BaseName(S))
            /\ \E i \in DOMAIN CallOf(ParentOf(D)).dirs_to_recurse :
                   CallOf(ParentOf(D)).dirs_to_recurse[i] = BaseName(S)}

\* C12 (directory-unreadable recovery): when the listing of a walked
\* directory D fails, then in Blacklist mode, or in Whitelist mode with D in
\* scope, exactly one error block naming D is written and the invocation on D
\* returns true; otherwise nothing is written and it returns false; in every
\* case the invocation returns to its caller and every sibling directory that
\* sorts after D is still walked.
C12_DirectoryUnreadable ==
    Done =>
        \A D \in unlistable :
            Visited(D) =>
                /\ CallOf(D).returned
                /\ IF \/ filter_mode = FILTER_BLACKLIST
                      \/ (filter_mode = FILTER_WHITELIST /\ InScope(D))
                   THEN /\ WritesOf(D) = <<Event("ErrorDirectory", D, Depth(D) + 2),
                                           Event("Path", D, 0),
                                           Event("Error", D, 0)>>
                        /\ CallOf(D).return_value = TRUE
                   ELSE /\ WritesOf(D) = <<>>
                        /\ CallOf(D).return_value = FALSE
                /\ \A S \in LaterSiblingsOf(D) : Visited(S) /\ CallOf(S).returned

\* a finished Whitelist walk with the file rule /p/a/b and the folder rule
\* /p/ab: the directory /p/a is recursed into for the rule below it, cannot be
\* listed and is out of scope, so nothing is written for it and it returns
\* false; its later sibling /p/ab is walked and gets its heading
C12_Witness ==
    /\ Done
    /\ filter_mode = FILTER_WHITELIST
    /\ rules_files = {PathAsB}
    /\ rules_folders = {PathAB}
    /\ unlistable = {PathA}
    /\ Visited(PathA)
    /\ WritesOf(PathA) = <<>>
    /\ CallOf(PathA).returned /\ ~ CallOf(PathA).return_value
    /\ PathAB \in LaterSiblingsOf(PathA)
    /\ Visited(PathAB) /\ HeadingFor(PathAB)

\* the number of writes of this kind for this path
Count(kind, path) ==
    Cardinality({i \in DOMAIN output_file :
                    output_file[i].kind = kind /\ output_file[i].path = path})

\* C13 (file-unreadable recovery): for every file of the files_to_output of an
\* invocation the output holds one File line followed by the file's content
\* block or, when the file cannot be read, by one inline error annotation,
\* never both and never neither; a file that cannot be read keeps no later
\* file of the directory from being emitted, and the invocation returns true
\* whether or not a read failed.
C13_FileUnreadable ==
    Done =>
        \A i \in DOMAIN calls :
            /\ \A k \in DOMAIN calls[i].files_to_output :
                   LET f == NormPath(Join(calls[i].directory, calls[i].files_to_output[k]))
                   IN  /\ Count("File", f) = 1
                       /\ Count("Content", f) + Count("FileError", f) = 1
                       /\ IF f \in unreadable
                          THEN FileLineThen(f, "FileError")
                          ELSE FileLineThen(f, "Content")
            /\ calls[i].files_to_output # <<>> => calls[i].return_value = TRUE

\* a finished walk of a scan directory holding the files a and ab, where a
\* cannot be read: a has its File line and the error annotation, the later
\* file ab its File line and content, and the walk returned true
C13_Witness ==
    /\ Done
    /\ IsFile(PathA) /\ IsFile(PathAB)
    /\ unreadable = {PathA}
    /\ CallOf(ScanDir).files_to_output = <<NameA, NameAB>>
    /\ FileLineThen(PathA, "FileError") /\ ~ Has("Content", PathA)
    /\ FileLineThen(PathAB, "Content")
    /\ result = TRUE

\* a directory heading or an error block was written for d or below d
HeadingOrErrorIn(d) ==
    \E i \in DOMAIN output_file :
        /\ output_file[i].kind \in {"Directory", "ErrorDirectory"}
        /\ output_file[i].path = d \/ NestedUnder(output_file[i].path, d)

\* C14 (return value): an invocation of process_directory returns true iff a
\* directory heading or an error block was written for its directory or for a
\* directory below it, and returns false exactly when nothing at all was
\* written for the directory and everything below it; the result of the scan
\* is the return value of the outermost invocation.
C14_ReturnValue ==
    Done =>
        /\ \A i \in DOMAIN calls :
               /\ calls[i].returned
               /\ calls[i].return_value = HeadingOrErrorIn(calls[i].directory)
               /\ calls[i].return_value = (WritesOf(calls[i].directory) # <<>>)
        /\ result = calls[1].return_value

\* a finished Whitelist walk with the file rule /p/a/b/a: the directory
\* /p/a/b is recursed into and wrote nothing, the rule naming no file of the
\* tree, and returned false, as did /p/a and the scan directory
C14_Witness ==
    /\ Done
    /\ filter_mode = FILTER_WHITELIST
    /\ rules_files = {PathAsBsA}
    /\ rules_folders = {}
    /\ IsDir(PathAsB) /\ ~ Exists(PathAsBsA)
    /\ Visited(PathAsB) /\ CallOf(PathAsB).returned
    /\ ~ CallOf(PathAsB).return_value
    /\ ~ CallOf(PathA).return_value
    /\ result = FALSE
    /\ output_file = <<>>

\* the ancestors lists an activation record holds: the list it was handed,
\* its own extended copy, and the copies kept for its sub-directories
AncestorsListsOf(f) ==
    <<f.whitelisted_ancestor_folders,
      f.current_whitelisted_ancestors,
      [i \in DOMAIN f.dirs_to_recurse_info |-> f.dirs_to_recurse_info[i].ancestors]>>

\* C15 (rule sets are read-only): no step of a scan, the steps that hit a
\* directory or file error included, changes files or folders, and no step
\* changes an ancestors list held by an invocation that is on the stack before
\* and after the step: a caller finds its lists as they were before the call,
\* and the inclusion tests of a listing leave the list they were handed as it
\* was.
C15_RulesReadOnly ==
    [][/\ rules_files' = rules_files
       /\ rules_folders' = rules_folders
       /\ \A k \in DOMAIN stack :
              (k \in DOMAIN stack' /\ stack'[k].id = stack[k].id) =>
                  \/ stack[k].pc = "entry"
                     /\ stack'[k].whitelisted_ancestor_folders =
                            stack[k].whitelisted_ancestor_folders
                     /\ stack'[k].current_whitelisted_ancestors =
                            stack[k].current_whitelisted_ancestors
                  \/ AncestorsListsOf(stack'[k]) = AncestorsListsOf(stack[k])]_vars

\* a finished Whitelist walk with the folder rule /p/a that extended the
\* ancestors list for /p/a, handed it on to /p/a/b, hit the listing error of
\* /p/a/b, and handed the later sibling /p/ab the empty list of the caller
C15_Witness ==
    /\ Done
    /\ filter_mode = FILTER_WHITELIST
    /\ rules_folders = {PathA}
    /\ rules_files = {PathAB}
    /\ unlistable = {PathAsB}
    /\ Visited(PathAsB)
    /\ CallOf(ScanDir).whitelisted_ancestor_folders = <<>>
    /\ CallOf(PathA).whitelisted_ancestor_folders = <<PathA>>
    /\ CallOf(PathAsB).whitelisted_ancestor_folders = <<PathA>>
    /\ ErrorBlockFor(PathAsB)
    /\ IsFile(PathAB) /\ FileEmitted(PathAB)

\* C18 (heading levels): every directory heading and every error-block
\* heading written for a directory at nesting depth d below the scan directory
\* has level d + 2, the Files sub-heading of that directory has level d + 3,
\* and every invocation runs at the depth of its directory, a recursive call
\* at exactly its caller's level + 1, at every depth of the tree.
C18_HeadingLevels ==
    Done =>
        /\ \A i \in DOMAIN output_file :
               /\ output_file[i].kind \in {"Directory", "ErrorDirectory"} =>
                      output_file[i].level = Depth(output_file[i].path) + 2
               /\ output_file[i].kind = "Files" =>
                      output_file[i].level = Depth(output_file[i].path) + 3
        /\ \A i \in DOMAIN calls :
               /\ calls[i].level = Depth(calls[i].directory)
               /\ calls[i].directory # ScanDir =>
                      calls[i].level = CallOf(ParentOf(calls[i].directory)).level + 1

\* a finished Whitelist walk with the folder rule /p/a/b and the file
\* /p/a/b/a: the invocation on /p/a/b runs at level 2, its heading has level
\* 4 and its Files sub-heading level 5, after the level-2 heading is written
\* for the scan directory
C18_Witness ==
    /\ Done
    /\ filter_mode = FILTER_WHITELIST
    /\ rules_folders = {PathAsB}
    /\ IsFile(PathAsBsA)
    /\ Visited(PathAsB)
    /\ CallOf(PathAsB).level = 2
    /\ \E i \in DOMAIN output_file :
           output_file[i] = Event("Directory", PathAsB, 4)
    /\ \E i \in DOMAIN output_file :
           output_file[i] = Event("Files", PathAsB, 5)
    /\ \E i \in DOMAIN output_file :
           output_file[i] = Event("Directory", ScanDir, 2)

\* some sub-directory the invocation on D recursed into returned true
ChildReturnedTrue(D) ==
    \E k \in DOMAIN CallOf(D).dirs_to_recurse :
        LET C == NormPath(Join(D, CallOf(D).dirs_to_recurse[k]))
        IN  Visited(C) /\ CallOf(C).return_value

\* C20 (Whitelist heading decision): in Whitelist mode the invocation on a
\* directory D whose listing succeeded writes the heading of D iff its
\* files_to_output is non-empty, or a sub-directory it recursed into returned
\* true, or D is in scope (in folders or below a whitelisted folder) and its
\* listing holds zero entries; an out-of-scope directory with no emitted file
\* and no child content writes nothing and returns false.
C20_WhitelistHeadingDecision ==
    (Done /\ filter_mode = FILTER_WHITELIST) =>
        \A D \in AllPaths :
            Listed(D) =>
                /\ Has("Directory", D) <=>
                       \/ CallOf(D).files_to_output # <<>>
                       \/ ChildReturnedTrue(D)
                       \/ (InScope(D) /\ CallOf(D).items = <<>>)
                /\ (/\ ~ InScope(D)
                    /\ CallOf(D).files_to_output = <<>>
                    /\ ~ ChildReturnedTrue(D)) =>
                       /\ WritesOf(D) = <<>>
                       /\ CallOf(D).return_value = FALSE

\* a finished Whitelist walk with the file rule /p/a/b and the folder rule
\* /p/ab, /p/ab being empty and /p/a holding the file b and nothing else:
\* /p/a is out of scope and has its heading for the file it emits, /p/ab is
\* in scope and has its heading for being empty, and the scan directory, out
\* of scope and without files of its own, has its heading for its children
C20_Witness ==
    /\ Done
    /\ filter_mode = FILTER_WHITELIST
    /\ rules_files = {PathAsB}
    /\ rules_folders = {PathAB}
    /\ unlistable = {}
    /\ IsFile(PathAsB) /\ IsDir(PathAB)
    /\ CallOf(ScanDir).files_to_output = <<>>
    /\ ~ InScope(PathA) /\ Has("Directory", PathA)
    /\ InScope(PathAB) /\ CallOf(PathAB).items = <<>> /\ Has("Directory", PathAB)
    /\ ChildReturnedTrue(ScanDir) /\ Has("Directory", ScanDir)

\* the elements of a list
Elems(list) == {list[i] : i \in DOMAIN list}

\* the other entries, existing or not, of the directory that holds C
SiblingsOf(C) ==
    IF C = ScanDir THEN {}
    ELSE {S \in Candidates : S # C /\ ParentOf(S) = ParentOf(C)}

C22_WalkSeed ==
    phase \in {"scan", "done"} =>
        /\ calls[1].directory = ScanDir
        /\ calls[1].level = 0
        /\ (calls[1].whitelisted_ancestor_folders = <<ScanDir>>) <=>
               (filter_mode = FILTER_WHITELIST /\ ScanDir \in rules_folders)
        /\ calls[1].whitelisted_ancestor_folders \in {<<>>, <<ScanDir>>}
        /\ filter_mode = FILTER_BLACKLIST => calls[1].whitelisted_ancestor_folders = <<>>

\* a finished Whitelist walk with the scan directory as the folder rule: the
\* walk was started at level 0 with the list holding the scan directory, and
\* the file /p/a, in no rule list, is emitted
C22_Witness ==
    /\ Done
    /\ filter_mode = FILTER_WHITELIST
    /\ rules_folders = {ScanDir}
    /\ rules_files = {}
    /\ calls[1].whitelisted_ancestor_folders = <<ScanDir>>
    /\ calls[1].level = 0
    /\ IsFile(PathA) /\ FileEmitted(PathA)

\* the directories of the tree, the scan directory included
Directories == {p \in AllPaths : IsDir(p)}

\* the nesting depth of the tree: the depth of its deepest directory
NestingDepth ==
    CHOOSE n \in 0..Cardinality(AllPaths) :
        /\ \E d \in Directories : Depth(d) = n
        /\ \A d \in Directories : Depth(d) <= n

C25_NonRedundant ==
    Done =>
        /\ \A i, j \in DOMAIN calls :
               calls[i].directory = calls[j].directory => i = j
        /\ \A p \in AllPaths :
               /\ Count("Directory", p) + Count("ErrorDirectory", p) <= 1
               /\ Count("File", p) <= 1
               /\ Count("Content", p) + Count("FileError", p) <= 1

\* a finished Whitelist walk with the folder rule /p/a, which passes the
\* inclusion test and is a rule path as well: /p/a is listed once and has
\* one heading, and its file /p/a/b one block
C25_Witness ==
    /\ Done
    /\ filter_mode = FILTER_WHITELIST
    /\ rules_folders = {PathA}
    /\ IsFile(PathAsB)
    /\ unreadable = {}
    /\ Cardinality({i \in DOMAIN calls : calls[i].directory = PathA}) = 1
    /\ Count("Directory", PathA) = 1
    /\ Count("File", PathAsB) = 1
    /\ Count("Content", PathAsB) = 1

\* C26 (heading ancestor-closure): in both modes, whenever a heading or an
\* error block is written for a directory D, a heading is written for every
\* directory from the scan directory down to D's parent; and no invocation
\* whose listing succeeded returns true without having written its heading,
\* so the return of line 192 never passes on the content of a child.
C26_AncestorClosure ==
    Done =>
        /\ \A D \in AllPaths :
               (Has("Directory", D) \/ Has("ErrorDirectory", D)) =>
                   \A a \in AllPaths : IsAncestor(a, D) => HeadingFor(a)
        /\ \A i \in DOMAIN calls :
               (calls[i].return_value /\ calls[i].directory \notin unlistable) =>
                   HeadingFor(calls[i].directory)

\* a finished Blacklist walk in which /p/a/b cannot be listed and has its
\* error block: /p/a and the scan directory, which emit no file of their
\* own, have their headings
C26_Witness ==
    /\ Done
    /\ filter_mode = FILTER_BLACKLIST
    /\ unlistable = {PathAsB}
    /\ ErrorBlockFor(PathAsB)
    /\ CallOf(PathA).files_to_output = <<>>
    /\ CallOf(ScanDir).files_to_output = <<>>
    /\ HeadingFor(PathA)
    /\ HeadingFor(ScanDir)

\* the list holds members of folders only, each the directory D itself or a
\* proper ancestor of D, and none twice
WellFormedAncestors(list, D) ==
    /\ \A i \in DOMAIN list :
           /\ list[i] \in rules_folders
           /\ list[i] = D \/ IsAncestor(list[i], D)
    /\ \A i, j \in DOMAIN list : list[i] = list[j] => i = j

\* C27 (ancestor-list invariant): in a scan started by _run_scan_thread, the
\* ancestors list every invocation of process_directory on a directory D is
\* handed, and its own extended copy, hold only members of folders that are D
\* or proper ancestors of D, hold none twice, and are empty all through a
\* Blacklist scan.
C27_AncestorLists ==
    \A k \in DOMAIN stack :
        /\ WellFormedAncestors(stack[k].whitelisted_ancestor_folders, stack[k].directory)
        /\ WellFormedAncestors(stack[k].current_whitelisted_ancestors, stack[k].directory)
        /\ filter_mode = FILTER_BLACKLIST =>
               /\ stack[k].whitelisted_ancestor_folders = <<>>
               /\ stack[k].current_whitelisted_ancestors = <<>>

\* a Whitelist walk with the folder rule /p/a, in the invocation on /p/a/b:
\* /p/a was handed the list its caller had extended by /p/a and did not add
\* /p/a again, and /p/a/b holds the one proper ancestor
C27_Witness ==
    /\ phase = "scan"
    /\ filter_mode = FILTER_WHITELIST
    /\ rules_folders = {PathA}
    /\ Len(stack) = 3
    /\ stack[2].directory = PathA
    /\ stack[2].whitelisted_ancestor_folders = <<PathA>>
    /\ stack[2].current_whitelisted_ancestors = <<PathA>>
    /\ stack[3].directory = PathAsB
    /\ stack[3].current_whitelisted_ancestors = <<PathA>>
    /\ stack[3].pc = "loop"

\* C28 (scope-test agreement): in a Whitelist scan started by
\* _run_scan_thread, for every directory D that process_directory is invoked
\* on, the in-scope flag of the heading and error-block decisions (D is in
\* folders, or D is strictly below an ancestor handed in by the caller)
\* equals should_process_item(D, is_file = false, files, folders, Whitelist,
\* D's current ancestors).
C28_ScopeAgreement ==
    filter_mode = FILTER_WHITELIST =>
        \A k \in DOMAIN stack :
            InWhitelistedScope(stack[k].directory,
                               stack[k].whitelisted_ancestor_folders,
                               filter_mode, rules_folders)
            = should_process_item(stack[k].directory, FALSE, rules_files,
                                  rules_folders, FILTER_WHITELIST,
                                  stack[k].current_whitelisted_ancestors)

\* a Whitelist walk with the folder rule /p/a/b and a file rule below it:
\* the scan directory and /p/a are out of scope by both tests, and /p/a/b,
\* handed the list holding its own path, is in scope by both
C28_Witness ==
    /\ phase = "scan"
    /\ filter_mode = FILTER_WHITELIST
    /\ rules_folders = {PathAsB}
    /\ rules_files = {PathAsBsA}
    /\ Len(stack) = 3
    /\ stack[3].directory = PathAsB
    /\ stack[3].whitelisted_ancestor_folders = <<PathAsB>>
    /\ InWhitelistedScope(PathAsB, stack[3].whitelisted_ancestor_folders,
                          filter_mode, rules_folders)
    /\ ~ InWhitelistedScope(PathA, stack[2].whitelisted_ancestor_folders,
                            filter_mode, rules_folders)
    /\ ~ should_process_item(PathA, FALSE, rules_files, rules_folders,
                             FILTER_WHITELIST, stack[2].current_whitelisted_ancestors)

\* the scan directory is walked, whatever the rules say of it, and when its
\* listing succeeds every entry of it is in the listing; in Blacklist mode
\* with the scan directory itself a folder rule, no entry of it is kept and
\* no directory below it is walked
RootListedChildrenExcluded ==
    /\ phase \in {"scan", "done"} =>
           /\ Len(calls) >= 1
           /\ calls[1].directory = ScanDir
    /\ (Done /\ ScanDir \notin unlistable) =>
           Elems(calls[1].items) = Entries(ScanDir)
    /\ (Done /\ filter_mode = FILTER_BLACKLIST /\ ScanDir \in rules_folders) =>
           /\ Len(calls) = 1
           /\ calls[1].files_to_output = <<>>
           /\ calls[1].dirs_to_recurse = <<>>

\* the heading of the scan directory with the note that it is empty
EmptyRootBlock ==
    <<Event("Directory", ScanDir, 2), Event("Path", ScanDir, 0),
      Event("Note", ScanDir, 0)>>

\* C29 as stated (the scan directory is never filtered): the walk lists the
\* directory it is started on without putting it to the inclusion test; in
\* Blacklist mode with the scan directory itself a folder rule, the scan
\* directory is still listed, every one of its entries is excluded, and the
\* only output is the heading of the scan directory with the 'empty or
\* excluded' note, written when the scan directory has zero entries.
C29_AsStated ==
    /\ RootListedChildrenExcluded
    /\ (Done /\ filter_mode = FILTER_BLACKLIST /\ ScanDir \in rules_folders) =>
           \/ output_file = <<>>
           \/ output_file = EmptyRootBlock /\ ChildrenOf(ScanDir) = {}

\* C29 amended (the scan directory is never filtered): as stated, and when
\* the scan directory cannot be listed the only output is its error block:
\* the output is the error block when the listing fails, the heading of the
\* scan directory with the note when the listing holds zero entries, and
\* nothing otherwise.
C29_RootNeverFiltered ==
    /\ RootListedChildrenExcluded
    /\ (Done /\ filter_mode = FILTER_BLACKLIST /\ ScanDir \in rules_folders) =>
           output_file =
               IF ScanDir \in unlistable
               THEN <<Event("ErrorDirectory", ScanDir, 2), Event("Path", ScanDir, 0),
                      Event("Error", ScanDir, 0)>>
               ELSE IF ChildrenOf(ScanDir) = {} THEN EmptyRootBlock
               ELSE <<>>

\* a finished Blacklist walk with the scan directory as the folder rule: the
\* scan directory was listed, its entries /p/a, a directory holding a file,
\* and the file /p/ab were excluded, and nothing was written
C29_Witness ==
    /\ Done
    /\ filter_mode = FILTER_BLACKLIST
    /\ rules_folders = {ScanDir}
    /\ unlistable = {}
    /\ IsDir(PathA) /\ IsFile(PathAsB) /\ IsFile(PathAB)
    /\ Len(calls[1].items) = 2
    /\ ~ Visited(PathA)
    /\ output_file = <<>>
    /\ result = FALSE

(***************************************************************************)
(* Properties of generate_directory_tree_text (specification SpecTree).    *)
(***************************************************************************)
Rendered == phase = "tree_done"

\* the text holds a line for the directory
LineFor(d) == \E i \in DOMAIN tree_text : tree_text[i].path = d

\* the blacklist as handed to the renderer
NormalizedTreeBlacklist == {Denoted(p) : p \in tree_blacklist}

\* d is a member of the blacklist or lies below a member
TreePruned(d) ==
    \E b \in NormalizedTreeBlacklist : d = b \/ NestedUnder(d, b)

\* C16 (P6, tree-blacklist exactness): the text returned by
\* generate_directory_tree_text holds no line for a directory whose normalized
\* path is in the blacklist nor for a directory below such a directory, and
\* holds a line for every other directory that can be reached from the scan
\* directory, that is, whose ancestors can all be listed.
C16_TreeBlacklistExactness ==
    Rendered =>
        \A d \in AllPaths :
            IsDir(d) =>
                /\ TreePruned(d) => ~ LineFor(d)
                /\ (~ TreePruned(d) /\ AncestorsListable(d)) => LineFor(d)

\* the rendered tree of /p with /p/a, /p/a/b, /p/a/b/a and /p/ab, the
\* blacklist naming /p/a/b with a trailing separator: lines for /p, /p/a and
\* /p/ab, none for /p/a/b and /p/a/b/a
C16_Witness ==
    /\ Rendered
    /\ tree_blacklist = {PathAsB \o <<Sep>>}
    /\ unlistable = {}
    /\ IsDir(PathAsBsA) /\ IsDir(PathAB)
    /\ LineFor(ScanDir) /\ LineFor(PathA) /\ LineFor(PathAB)
    /\ ~ LineFor(PathAsB) /\ ~ LineFor(PathAsBsA)
    /\ Len(tree_text) = 3

\* C17: generate_directory_tree_text returns the empty text whenever the scan
\* directory has no sub-directory outside the blacklist (none at all, or every
\* one blacklisted), and the tree section then holds the placeholder line
\* instead of a tree.
C17_EmptyTreePlaceholder ==
    (/\ Rendered
     /\ \A c \in ChildrenOf(ScanDir) :
            IsDir(c) => c \in NormalizedTreeBlacklist) =>
        /\ tree_text = <<>>
        /\ Has("TreePlaceholder", ScanDir)
        /\ ~ Has("Tree", ScanDir)

(***************************************************************************)
(* Properties of the document (specification SpecDoc).                     *)
(***************************************************************************)
\* the kinds of the writes of process_directory
WalkKinds ==
    {"Directory", "Path", "Files", "File", "Content", "FileError", "Note",
     "ErrorDirectory", "Error"}

KindsOf(writes) == [i \in DOMAIN writes |-> writes[i].kind]

\* the output opens with the writes of one of the given sequences of kinds,
\* and every write after them is a write of process_directory
OpensWith(sequences) ==
    \E kinds \in sequences :
        /\ Len(kinds) <= Len(output_file)
        /\ KindsOf(SubSeq(output_file, 1, Len(kinds))) = kinds
        /\ \A i \in (Len(kinds) + 1)..Len(output_file) :
               output_file[i].kind \in WalkKinds

IsPrefix(s, t) == Len(s) <= Len(t) /\ SubSeq(t, 1, Len(s)) = s

TreeSectionKinds ==
    {<<"TreeHeader", t, "Separator">> : t \in {"Tree", "TreePlaceholder"}}

\* C23 as stated (write order): the output file receives, in this order and
\* with no earlier output rewritten, the scan title, then (only if tree
\* generation is enabled) the tree header, the rendered tree or the
\* placeholder, and the separator, then the mode line, then the rules-source
\* line, and only then the writes of process_directory.
C23_AsStated ==
    [][/\ IsPrefix(output_file, output_file')
       /\ phase' \in {"scan", "done"} =>
              OpensWith(IF scan_params.generate_tree
                        THEN {<<"Title">> \o ts \o <<"Mode", "RulesFrom">> :
                                 ts \in TreeSectionKinds}
                        ELSE {<<"Title", "Mode", "RulesFrom">>})']_vars

\* C23 amended (write order): the output file receives, in this order and
\* with no earlier output rewritten, first (only if tree generation is
\* enabled) the tree header, the rendered tree or the placeholder, and the
\* separator, then the scan title, then the mode line, then the rules-source
\* line, and only then the writes of process_directory.
C23_WriteOrder ==
    [][/\ IsPrefix(output_file, output_file')
       /\ phase' \in {"scan", "done"} =>
              OpensWith(IF scan_params.generate_tree
                        THEN {ts \o <<"Title", "Mode", "RulesFrom">> :
                                 ts \in TreeSectionKinds}
                        ELSE {<<"Title", "Mode", "RulesFrom">>})']_vars

\* a finished Blacklist run with tree generation enabled: the tree section,
\* the title, the mode line and the rules-source line of a rules file with
\* unsaved modifications, then the heading of the scan directory and the
\* block of the file /p/a
C23_Witness ==
    /\ Done
    /\ scan_params.generate_tree
    /\ scan_params.rules_dirty
    /\ filter_mode = FILTER_BLACKLIST
    /\ IsFile(PathA)
    /\ Len(output_file) = 11
    /\ KindsOf(output_file) =
           <<"TreeHeader", "Tree", "Separator", "Title", "Mode", "RulesFrom",
             "Directory", "Path", "Files", "File", "Content">>

====
